---------------------------- MODULE Spec2Model ----------------------------
(***************************************************************************)
(* PPO_c.py: Memory (the trajectory buffer), PPO.action_selection,         *)
(* PPO.update and the training loop of main().                             *)
(*                                                                         *)
(* Numbers.  Rewards are integers.  A discounted return is the exact       *)
(* rational num / GammaDen^exp, kept as the record [num, exp]; gamma is    *)
(* GammaNum / GammaDen = 0.99.  Ratios and eps_clip are in tenths          *)
(* (ClipDen), so a product ratio * advantage is in tenths as well.         *)
(* Network parameters are abstract values of ParamVals; one optimizer step *)
(* may take them to any value of that set.  An observation is one abstract *)
(* value: no modelled statement branches on it.                            *)
(***************************************************************************)
EXTENDS Integers, Sequences, FiniteSets

\* ---- hyperparameters (src/PPO_c.py lines 9-26) ----
GammaNum == 99
GammaDen == 100
ClipDen == 10
EpsClip == 2

\* ---- bounds of the model ----
UpdateTimestep == 3
MaxTimesteps == 2
MaxEpisodes == 3
K_epochs == 2
MaxSteps == 3
MaxOutcomes == 2
MaxRatio == 20
MaxAdv == 3

RewardVals == {-1, 0, 1}
StateVals == {0}
ActionVals == {0, 1}
ParamVals == {0, 1}
RatioVals == 0 .. MaxRatio
AdvVals == (0 - MaxAdv) .. MaxAdv

VARIABLES
    states, actions, logprobs, rewards, is_terminals,  \* Memory
    policy, policy_old,                                \* PPO's two ActorCritic
    upc, Returns, disc_reward, it, j, evalCalls, gradSteps, stages, outcome,
    pc, i_episode, t, time_step, state, done,          \* main()
    ratios, advantages, L_CPI, L_CLIP                  \* one element of the loss

memVars == <<states, actions, logprobs, rewards, is_terminals>>
polVars == <<policy, policy_old>>
updVars == <<upc, Returns, disc_reward, it, j, evalCalls, gradSteps, stages, outcome>>
drvVars == <<pc, i_episode, t, time_step, state, done>>
clipVars == <<ratios, advantages, L_CPI, L_CLIP>>
vars == <<memVars, polVars, updVars, drvVars, clipVars>>

\* ---- helpers ----
Min(a, b) == IF a <= b THEN a ELSE b
Max(a, b) == IF a >= b THEN a ELSE b

RECURSIVE Pow(_, _)
Pow(b, e) == IF e = 0 THEN 1 ELSE b * Pow(b, e - 1)

\* disc_reward = 0
RZero == [num |-> 0, exp |-> 0]

\* reward + self.gamma * R
Discount(reward, R) ==
    [num |-> reward * Pow(GammaDen, R.exp + 1) + GammaNum * R.num,
     exp |-> R.exp + 1]

\* one iteration of the loop over zip(reversed(rewards), reversed(is_terminals))
DiscStepNoReset(reward, is_terminal, R) == Discount(reward, R)

DiscStep(reward, is_terminal, R) ==
    Discount(reward, IF is_terminal THEN RZero ELSE R)

\* Returns.insert(0, disc_reward)
InsertReturnAtEnd(Rs, R) == Rs \o <<R>>

InsertReturn(Rs, R) == <<R>> \o Rs

\* reversed(seq): the element the iteration numbered k (from 0) sees
ReversedAtForward(seq, k) == seq[k + 1]

ReversedAt(seq, k) == seq[Len(seq) - k]

\* lines 104-111 after k iterations over rw, tm: [R |-> disc_reward, Rs |-> Returns]
RECURSIVE ReturnsLoop(_, _, _)
ReturnsLoop(rw, tm, k) ==
    IF k = 0
    THEN [R |-> RZero, Rs |-> <<>>]
    ELSE LET prev == ReturnsLoop(rw, tm, k - 1)
             R == DiscStep(ReversedAt(rw, k - 1), ReversedAt(tm, k - 1), prev.R)
         IN [R |-> R, Rs |-> InsertReturn(prev.Rs, R)]

\* zip stops at the shorter of its two arguments
ZipLen == Min(Len(rewards), Len(is_terminals))

\* the logprob act() records: it is the acting snapshot's, for that state and action
LogProb(theta, s, a) == <<theta, s, a>>

\* shapes (m,) and (n,) after torch.squeeze broadcast in Returns - state_values
Broadcastable(m, n) == m = n \/ m = 1 \/ n = 1

\* ---- Memory ----
MemoryInit ==
    /\ actions = <<>>
    /\ states = <<>>
    /\ logprobs = <<>>
    /\ rewards = <<>>
    /\ is_terminals = <<>>

clear_memory_partial ==
    /\ actions' = <<>>
    /\ states' = <<>>
    /\ logprobs' = <<>>
    /\ rewards' = rewards
    /\ is_terminals' = <<>>

clear_memory ==
    /\ actions' = <<>>
    /\ states' = <<>>
    /\ logprobs' = <<>>
    /\ rewards' = <<>>
    /\ is_terminals' = <<>>

\* ---- ActorCritic.act, through PPO.action_selection ----
act_no_logprob(theta, s, a) ==
    /\ states' = Append(states, s)
    /\ actions' = Append(actions, a)
    /\ logprobs' = logprobs

act(theta, s, a) ==
    /\ states' = Append(states, s)
    /\ actions' = Append(actions, a)
    /\ logprobs' = Append(logprobs, LogProb(theta, s, a))

action_selection(s, a) ==
    /\ act(policy_old, s, a)
    /\ UNCHANGED <<rewards, is_terminals, policy, policy_old>>

\* memory.rewards.append(reward); memory.is_terminals.append(done)
append_outcome(reward, d) ==
    /\ rewards' = Append(rewards, reward)
    /\ is_terminals' = Append(is_terminals, d)
    /\ UNCHANGED <<states, actions, logprobs>>

\* ---- PPO.update, statement by statement ----
UpdateEnter ==
    /\ upc = "idle"
    /\ upc' = "returns"
    /\ Returns' = <<>>
    /\ disc_reward' = RZero
    /\ it' = 0
    /\ j' = 0
    /\ evalCalls' = 0
    /\ gradSteps' = 0
    /\ stages' = {}
    /\ outcome' = "running"

\* update is left, by return or by an exception: its locals are gone
UpdateExit(result) ==
    /\ upc' = "idle"
    /\ outcome' = result
    /\ Returns' = <<>>
    /\ disc_reward' = RZero
    /\ it' = 0
    /\ j' = 0
    /\ evalCalls' = 0
    /\ gradSteps' = 0
    /\ stages' = {}

UpdateReturnsLoop ==
    /\ upc = "returns"
    /\ it < ZipLen
    /\ LET reward == ReversedAt(rewards, it)
           is_terminal == ReversedAt(is_terminals, it)
           R == DiscStep(reward, is_terminal, disc_reward)
       IN /\ disc_reward' = R
          /\ Returns' = InsertReturn(Returns, R)
    /\ it' = it + 1
    /\ stages' = stages \cup {"returns"}
    /\ UNCHANGED <<upc, j, evalCalls, gradSteps, outcome>>
    /\ UNCHANGED <<memVars, polVars, drvVars, clipVars>>

\* lines 114-115: the tensor of returns, its mean and its std are computed,
\* whatever its length
UpdateNormalize ==
    /\ upc = "returns"
    /\ it = ZipLen
    /\ upc' = "stack"
    /\ stages' = stages \cup {"returns", "normalize"}
    /\ UNCHANGED <<Returns, disc_reward, it, j, evalCalls, gradSteps, outcome>>
    /\ UNCHANGED <<memVars, polVars, drvVars, clipVars>>

\* lines 117-119: torch.stack of an empty list raises RuntimeError
UpdateStack ==
    /\ upc = "stack"
    /\ IF Len(states) = 0 \/ Len(actions) = 0 \/ Len(logprobs) = 0
       THEN UpdateExit("RuntimeError")
       ELSE /\ upc' = "epoch"
            /\ stages' = stages \cup {"stack"}
            /\ UNCHANGED <<Returns, disc_reward, it, j, evalCalls, gradSteps, outcome>>
    /\ UNCHANGED <<memVars, polVars, drvVars, clipVars>>

\* lines 122-126: the body of the loop over range(K_epochs)
UpdateEpoch ==
    /\ upc = "epoch"
    /\ j < K_epochs
    /\ j' = j + 1
    /\ evalCalls' = evalCalls + 1
    /\ stages' = stages \cup {"evaluate"}
    /\ UNCHANGED <<upc, Returns, disc_reward, it, gradSteps, outcome>>
    /\ UNCHANGED <<memVars, polVars, drvVars, clipVars>>

\* lines 130-133, after the loop: the shapes must broadcast
UpdateLoss ==
    /\ upc = "epoch"
    /\ j = K_epochs
    /\ IF Broadcastable(Len(Returns), Len(states))
       THEN /\ upc' = "step"
            /\ stages' = stages \cup {"loss"}
            /\ UNCHANGED <<Returns, disc_reward, it, j, evalCalls, gradSteps, outcome>>
       ELSE UpdateExit("RuntimeError")
    /\ UNCHANGED <<memVars, polVars, drvVars, clipVars>>

\* lines 136-138: one optimizer step on self.policy
OptimizerStep(theta) ==
    /\ policy' = theta
    /\ gradSteps' = gradSteps + 1

UpdateStep ==
    /\ upc = "step"
    /\ \E theta \in ParamVals : OptimizerStep(theta)
    /\ upc' = "sync"
    /\ stages' = stages \cup {"step"}
    /\ UNCHANGED <<policy_old, Returns, disc_reward, it, j, evalCalls, outcome>>
    /\ UNCHANGED <<memVars, drvVars, clipVars>>

\* line 140: self.policy_old.load_state_dict(self.policy.state_dict())
load_state_dict_skipped == policy_old' = policy_old

load_state_dict == policy_old' = policy

UpdateSync ==
    /\ upc = "sync"
    /\ load_state_dict
    /\ UpdateExit("returned")
    /\ UNCHANGED policy
    /\ UNCHANGED <<memVars, drvVars, clipVars>>

UpdateInit ==
    /\ upc = "idle"
    /\ Returns = <<>>
    /\ disc_reward = RZero
    /\ it = 0
    /\ j = 0
    /\ evalCalls = 0
    /\ gradSteps = 0
    /\ stages = {}
    /\ outcome = "none"

\* PPO.__init__: policy_old is loaded from policy
PPOInit ==
    /\ policy \in ParamVals
    /\ policy_old = policy

ClipIdle ==
    /\ ratios = 0
    /\ advantages = 0
    /\ L_CPI = 0
    /\ L_CLIP = 0

\* ---- the clipped surrogate of one step (lines 131-132) ----
\* torch.clamp(x, lo, hi)
Clamp(x, lo, hi) == Min(Max(x, lo), hi)

\* L_CPI = ratios * advantages
Unclipped(r, A) == r * A

\* torch.min(L_CPI, torch.clamp(ratios, 1 - eps_clip, 1 + eps_clip) * advantages)
SurrogateMax(r, A) ==
    Max(Unclipped(r, A), Clamp(r, ClipDen - EpsClip, ClipDen + EpsClip) * A)

Surrogate(r, A) ==
    Min(Unclipped(r, A), Clamp(r, ClipDen - EpsClip, ClipDen + EpsClip) * A)

SurrogateLoss ==
    /\ pc = "clip"
    /\ L_CPI' = Unclipped(ratios, advantages)
    /\ L_CLIP' = Surrogate(ratios, advantages)
    /\ pc' = "clipped"
    /\ UNCHANGED <<ratios, advantages, i_episode, t, time_step, state, done>>
    /\ UNCHANGED <<memVars, polVars, updVars>>

\* ---- main(): the training loop ----
\* line 179: state = env.reset(), and the inner loop starts at t = 0
DriverReset ==
    /\ pc = "reset"
    /\ upc = "idle"
    /\ \E s \in StateVals : state' = s
    /\ t' = 0
    /\ pc' = "select"
    /\ UNCHANGED <<i_episode, time_step, done>>
    /\ UNCHANGED <<memVars, polVars, updVars, clipVars>>

\* lines 181-183
DriverSelect ==
    /\ pc = "select"
    /\ time_step' = time_step + 1
    /\ \E a \in ActionVals : action_selection(state, a)
    /\ pc' = "step"
    /\ UNCHANGED <<i_episode, t, state, done>>
    /\ UNCHANGED <<updVars, clipVars>>

\* lines 184-188
DriverEnvStep ==
    /\ pc = "step"
    /\ \E s \in StateVals, reward \in RewardVals, d \in BOOLEAN :
          /\ state' = s
          /\ done' = d
          /\ append_outcome(reward, d)
    /\ pc' = "check"
    /\ UNCHANGED <<i_episode, t, time_step>>
    /\ UNCHANGED <<polVars, updVars, clipVars>>

\* lines 191-192: it is time, update is called
DriverCallUpdate ==
    /\ pc = "check"
    /\ time_step % UpdateTimestep = 0
    /\ UpdateEnter
    /\ pc' = "update"
    /\ UNCHANGED <<i_episode, t, time_step, state, done>>
    /\ UNCHANGED <<memVars, polVars, clipVars>>

\* line 191: it is not time
DriverSkipUpdate ==
    /\ pc = "check"
    /\ time_step % UpdateTimestep # 0
    /\ pc' = "donecheck"
    /\ UNCHANGED <<i_episode, t, time_step, state, done>>
    /\ UNCHANGED <<memVars, polVars, updVars, clipVars>>

\* lines 193-194, once update has returned
DriverClear ==
    /\ pc = "update"
    /\ upc = "idle"
    /\ outcome = "returned"
    /\ clear_memory
    /\ time_step' = 0
    /\ pc' = "donecheck"
    /\ UNCHANGED <<i_episode, t, state, done>>
    /\ UNCHANGED <<polVars, updVars, clipVars>>

\* lines 198-199 and the two loop headers (180, 178)
DriverDoneCheck ==
    /\ pc = "donecheck"
    /\ IF done \/ t + 1 >= MaxTimesteps
       THEN /\ i_episode' = i_episode + 1
            /\ t' = t
            /\ pc' = IF i_episode + 1 > MaxEpisodes THEN "finished" ELSE "reset"
       ELSE /\ i_episode' = i_episode
            /\ t' = t + 1
            /\ pc' = "select"
    /\ UNCHANGED <<time_step, state, done>>
    /\ UNCHANGED <<memVars, polVars, updVars, clipVars>>

DriverInit ==
    /\ pc = "reset"
    /\ i_episode = 1
    /\ t = 0
    /\ time_step = 0
    /\ state = 0
    /\ done = FALSE

Init ==
    /\ MemoryInit
    /\ PPOInit
    /\ UpdateInit
    /\ DriverInit
    /\ ClipIdle

Next ==
    \/ DriverReset
    \/ DriverSelect
    \/ DriverEnvStep
    \/ DriverCallUpdate
    \/ DriverSkipUpdate
    \/ UpdateReturnsLoop
    \/ UpdateNormalize
    \/ UpdateStack
    \/ UpdateEpoch
    \/ UpdateLoss
    \/ UpdateStep
    \/ UpdateSync
    \/ DriverClear
    \/ DriverDoneCheck

Spec == Init /\ [][Next]_vars

\* ---- the same objects under any caller: any sequence of action_selection,
\* ---- outcome appends, update and clear_memory calls
IdleFields ==
    /\ i_episode = 0
    /\ t = 0
    /\ time_step = 0
    /\ state = 0
    /\ done = FALSE

ApiSelect ==
    /\ pc = "api"
    /\ upc = "idle"
    /\ Len(states) < MaxSteps
    /\ \E s \in StateVals, a \in ActionVals : action_selection(s, a)
    /\ UNCHANGED <<updVars, drvVars, clipVars>>

ApiOutcome ==
    /\ pc = "api"
    /\ upc = "idle"
    /\ Len(rewards) < MaxOutcomes
    /\ \E reward \in RewardVals, d \in BOOLEAN : append_outcome(reward, d)
    /\ UNCHANGED <<polVars, updVars, drvVars, clipVars>>

ApiUpdate ==
    /\ pc = "api"
    /\ UpdateEnter
    /\ UNCHANGED <<memVars, polVars, drvVars, clipVars>>

ApiClear ==
    /\ pc = "api"
    /\ upc = "idle"
    /\ clear_memory
    /\ UNCHANGED <<polVars, updVars, drvVars, clipVars>>

InitApi ==
    /\ MemoryInit
    /\ PPOInit
    /\ UpdateInit
    /\ pc = "api"
    /\ IdleFields
    /\ ClipIdle

NextApi ==
    \/ ApiSelect
    \/ ApiOutcome
    \/ ApiUpdate
    \/ ApiClear
    \/ UpdateReturnsLoop
    \/ UpdateNormalize
    \/ UpdateStack
    \/ UpdateEpoch
    \/ UpdateLoss
    \/ UpdateStep
    \/ UpdateSync

SpecApi == InitApi /\ [][NextApi]_vars

\* ---- the surrogate alone, over a grid of ratios and advantages
InitClip ==
    /\ MemoryInit
    /\ PPOInit
    /\ UpdateInit
    /\ pc = "clip"
    /\ IdleFields
    /\ ratios \in RatioVals
    /\ advantages \in AdvVals
    /\ L_CPI = 0
    /\ L_CLIP = 0

NextClip == SurrogateLoss

SpecClip == InitClip /\ [][NextClip]_vars

\* ======================= properties =======================
AllEmpty ==
    /\ Len(states) = 0
    /\ Len(actions) = 0
    /\ Len(logprobs) = 0
    /\ Len(rewards) = 0
    /\ Len(is_terminals) = 0

AllEqualLength ==
    /\ Len(states) = Len(actions)
    /\ Len(actions) = Len(logprobs)
    /\ Len(logprobs) = Len(rewards)
    /\ Len(rewards) = Len(is_terminals)

\* update has just left the loop of lines 106-111: Returns holds the
\* pre-normalization returns of the buffer (nothing writes it afterwards)
ReturnsComplete == upc = "stack"

\* C1: the old snapshot changes only in the copy that ends update, which makes
\* it equal to the current snapshot as the gradient step left it; between two
\* update calls (and inside update before that copy) it does not change.
C1_OldChangedOnlyByCopy ==
    [][ /\ (policy_old' # policy_old => upc = "sync" /\ policy_old' = policy)
        /\ (upc = "idle" /\ upc' = "idle" => policy_old' = policy_old)
        /\ (upc = "sync" /\ upc' = "idle" => policy_old' = policy' /\ policy' = policy)
      ]_vars

\* an update has returned on a buffer whose first step was sampled by another
\* old snapshot than the present one
C1_Witness ==
    /\ upc = "idle"
    /\ outcome = "returned"
    /\ Len(logprobs) >= 1
    /\ logprobs[1][1] # policy_old
    /\ policy_old = policy

\* sum over k = tt..T of gamma^(k-tt) * rewards[k], as the numerator over
\* GammaDen^(T-tt+1)
RECURSIVE DiscountedSum(_, _, _)
DiscountedSum(tt, k, T) ==
    IF k > T
    THEN 0
    ELSE rewards[k] * Pow(GammaNum, k - tt) * Pow(GammaDen, T - k + 1)
         + DiscountedSum(tt, k + 1, T)

SingleEpisode ==
    /\ Len(is_terminals) >= 1
    /\ Len(rewards) = Len(is_terminals)
    /\ is_terminals[Len(is_terminals)]
    /\ \A k \in 1 .. Len(is_terminals) - 1 : ~is_terminals[k]

\* C2: for a buffer that is one uninterrupted episode of length T, the return
\* of step tt is the sum over k = tt..T of gamma^(k-tt) * reward_k, earliest step
\* first; rewards [1,1,1] with terminals [F,F,T] give [2.9701, 1.99, 1.0].
C2_SingleEpisodeReturns ==
    (ReturnsComplete /\ SingleEpisode) =>
        /\ Len(Returns) = Len(rewards)
        /\ \A tt \in 1 .. Len(rewards) :
              /\ Returns[tt].exp = Len(rewards) - tt + 1
              /\ Returns[tt].num = DiscountedSum(tt, tt, Len(rewards))
        /\ (rewards = <<1, 1, 1>> =>
              Returns = << [num |-> 2970100, exp |-> 3],
                           [num |-> 19900, exp |-> 2],
                           [num |-> 100, exp |-> 1] >>)

C2_Witness ==
    /\ ReturnsComplete
    /\ SingleEpisode
    /\ rewards = <<1, 1, 1>>
    /\ Returns[1] = [num |-> 2970100, exp |-> 3]

\* the reward sequences that differ from the buffer's only at indices <= i
RewardsChangedUpTo(i) ==
    { rw \in [1 .. Len(rewards) -> RewardVals] :
         \A k \in (i + 1) .. Len(rewards) : rw[k] = rewards[k] }

\* C3: with a true terminal flag at index i, the returns at every index after i
\* are the same for every choice of the rewards at indices <= i.
C3_ReturnsAfterTerminalIndependent ==
    (ReturnsComplete /\ Len(rewards) = Len(is_terminals)) =>
        /\ Returns = ReturnsLoop(rewards, is_terminals, Len(rewards)).Rs
        /\ \A i \in 1 .. Len(rewards) :
              is_terminals[i] =>
                 \A rw \in RewardsChangedUpTo(i) :
                    LET other == ReturnsLoop(rw, is_terminals, Len(rewards)).Rs
                    IN \A k \in (i + 1) .. Len(rewards) : other[k] = Returns[k]

C3_Witness ==
    /\ ReturnsComplete
    /\ Len(rewards) >= 3
    /\ is_terminals[1]
    /\ rewards[1] # 0
    /\ Returns[2].num # 0

\* C4: in the training loop the three per-step sequences have one length, the
\* two outcome sequences have one length, a recorded step is followed by its
\* outcome before the next step is recorded, and update sees five equal lengths.
C4_BufferLengths ==
    /\ Len(states) = Len(actions)
    /\ Len(actions) = Len(logprobs)
    /\ Len(rewards) = Len(is_terminals)
    /\ (pc = "step" => Len(states) = Len(rewards) + 1)
    /\ (pc # "step" => Len(states) = Len(rewards))
    /\ (upc # "idle" => AllEqualLength /\ Len(states) = UpdateTimestep)

C4_Witness ==
    /\ pc = "update"
    /\ upc = "returns"
    /\ Len(states) = UpdateTimestep
    /\ Len(is_terminals) = UpdateTimestep

Mismatched == ~AllEqualLength

\* C5: update never computes returns, evaluates, or takes a gradient step on a
\* buffer whose five lengths differ.
C5_UpdateValidatesLengths ==
    (upc # "idle" /\ Mismatched) => stages = {}

\* C6: update on an empty buffer does not go into the normalization, the loss
\* or the gradient step.
C6_EmptyBufferNotProcessed ==
    (upc # "idle" /\ AllEmpty) => stages \cap {"normalize", "loss", "step"} = {}

\* C7: once update has returned in the training loop the buffer is cleared
\* whole, and it is empty until the next step is recorded.
C7_ClearedAfterUpdate ==
    /\ [](time_step = 0 => AllEmpty)
    /\ [][pc = "update" /\ pc' # "update" => AllEmpty']_vars

C7_Witness ==
    /\ pc = "donecheck"
    /\ outcome = "returned"
    /\ time_step = 0
    /\ AllEmpty

ClipLo == ClipDen - EpsClip
ClipHi == ClipDen + EpsClip

\* C8: the surrogate is the smaller of r*A and clamp(r)*A; inside the band it is
\* r*A; outside the band with A > 0 it does not exceed the band's boundary value
\* on that side: above the band it is (1+eps_clip)*A, below the band it is r*A,
\* which is under (1-eps_clip)*A.
C8_ClippedSurrogate ==
    pc = "clipped" =>
        LET r == ratios
            A == advantages
            clamped == IF r < ClipLo THEN ClipLo ELSE IF r > ClipHi THEN ClipHi ELSE r
        IN /\ L_CLIP <= r * A
           /\ L_CLIP <= clamped * A
           /\ L_CLIP \in {r * A, clamped * A}
           /\ (r >= ClipLo /\ r <= ClipHi => L_CLIP = r * A)
           /\ (A > 0 /\ r > ClipHi => L_CLIP = ClipHi * A)
           /\ (A > 0 /\ r < ClipLo => L_CLIP = r * A /\ L_CLIP <= ClipLo * A)

C8_Witness ==
    /\ pc = "clipped"
    /\ advantages > 0
    /\ ratios > ClipHi
    /\ L_CLIP = ClipHi * advantages
    /\ L_CLIP < L_CPI

\* C9: when update reaches the copy into old it has made K_epochs evaluate calls
\* and K_epochs gradient steps.
C9_GradientStepPerEpoch ==
    upc = "sync" => evalCalls = K_epochs /\ gradSteps = K_epochs

\* a step of the loop of lines 106-111 has just run
ReturnsStepTaken == upc = "returns" /\ it' = it + 1

\* C10, as stated: a step with a true terminal flag leaves R = 0; a step with a
\* false one leaves R = reward + gamma*R; R is inserted first.
C10_AsStated ==
    [][ ReturnsStepTaken =>
          LET reward == ReversedAt(rewards, it)
              is_terminal == ReversedAt(is_terminals, it)
          IN /\ (is_terminal => disc_reward'.num = 0)
             /\ (~is_terminal =>
                    /\ disc_reward'.exp = disc_reward.exp + 1
                    /\ disc_reward'.num = reward * Pow(GammaDen, disc_reward'.exp)
                                            + GammaNum * disc_reward.num)
             /\ Returns' = <<disc_reward'>> \o Returns
      ]_vars

\* C10, amended: a step with a true terminal flag leaves R = reward (R is reset
\* to 0 and the reward is then added); a step with a false one leaves
\* R = reward + gamma*R; R is inserted first, and rewards are visited last first.
C10_ResetThenAdd ==
    [][ ReturnsStepTaken =>
          LET reward == rewards[Len(rewards) - it]
              is_terminal == is_terminals[Len(is_terminals) - it]
          IN /\ (is_terminal => disc_reward'.num = reward * Pow(GammaDen, disc_reward'.exp))
             /\ (~is_terminal =>
                    /\ disc_reward'.exp = disc_reward.exp + 1
                    /\ disc_reward'.num = reward * Pow(GammaDen, disc_reward'.exp)
                                            + GammaNum * disc_reward.num)
             /\ Returns' = <<disc_reward'>> \o Returns
      ]_vars

C10_Witness ==
    /\ upc = "returns"
    /\ it >= 2
    /\ ReversedAt(is_terminals, it - 1)
    /\ ReversedAt(rewards, it - 1) # 0
    /\ Returns[2].num # 0
    /\ disc_reward.num = ReversedAt(rewards, it - 1) * GammaDen
=============================================================================
